---- MODULE Spec2Model ----
(***************************************************************************)
(* Model of src/server.py: the focus-timer backend.  The three MongoDB     *)
(* collections are sequences in natural (insertion) order; a document's    *)
(* _id is its position.  Every request handler is a coroutine: each await  *)
(* on a database call is one atomic step of the store, and the handlers of *)
(* different requests interleave between those steps.                       *)
(*                                                                         *)
(* Time is counted in ticks of datetime.utcnow(); TicksPerDay ticks make a *)
(* calendar day and tick 0 is a Monday 00:00 UTC.  The clock is observed   *)
(* at the instants of Instants only.  A duration is kept in ticks          *)
(* (total_seconds()/3600 is a fixed rescaling of it), so sums of durations *)
(* are exact; floating-point rounding is outside this model.               *)
(* The fields quote and duration of a FocusSession are never read by any   *)
(* handler and are left out.                                               *)
(***************************************************************************)
EXTENDS Integers, Sequences, FiniteSets, TLC

\* ---- bounds of the model ----
MaxSessions == 2       \* focus_sessions documents
MaxCompletions == 3    \* complete_session requests that reach the stats write
MaxLimit == 2          \* largest limit given to get_session_history
MaxSchedules == 2      \* create_schedule requests
MaxToggles == 3        \* toggle_schedule requests that reach the update
TicksPerDay == 2       \* clock ticks per calendar day

DefaultUser == "default_user"      \* userId: str = "default_user"
Users == {DefaultUser, "other_user"}
Procs == {1, 2}        \* clients, each with at most one request in flight
\* the instants at which utcnow() is read: two on a Monday, one on the Tuesday
\* and one on the Thursday after it
Instants == {0, 1, TicksPerDay, 3 * TicksPerDay}
SessionIds == 1..MaxSessions

\* ---- program constants ----
WeekLen == 7           \* [0.0] * 7
NoTime == 0 - 1        \* Optional[datetime] = None

VARIABLES
    clock,             \* datetime.utcnow()
    focus_sessions,    \* db.focus_sessions
    user_stats,        \* db.user_stats
    pc,                \* position of each request handler
    complete_data,     \* request body / query of the running request
    session,           \* local: start_session's session, complete_session's session
    end_time,          \* local of complete_session
    stats,             \* local of complete_session: <<>> is None
    resp,              \* the response on the wire, NoResp when there is none
    created,           \* as noted by a client that keeps track: <<client, _id>>
                       \* of the last start_session response, <<>> once that
                       \* client received another response
    ledger,            \* history, per userId of the request: the number of
                       \* completions that wrote stats and their durations,
                       \* in total and by weekday of end_time
    overtaken,         \* history, per client: since its complete_session read
                       \* end_time, another request wrote the stats of its userId
    schedules,         \* db.schedules
    inserted,          \* number of documents db.schedules ever received
    schedule,          \* local of toggle_schedule: <<>> is None
    toggles            \* history, per schedule _id: the toggle responses sent
                       \* and the value the last one returned

schedVars == <<schedules, inserted, schedule, toggles>>

sessionVars == <<clock, focus_sessions, user_stats, complete_data, session,
                 end_time, stats, created, ledger, overtaken>>

vars == <<clock, focus_sessions, user_stats, pc, complete_data, session,
          end_time, stats, resp, created, ledger, overtaken, schedVars>>

\* ---- models (lines 43-66) ----
ZeroWeek == [d \in 0..(WeekLen - 1) |-> 0]

FocusSession(userId, startTime, createdAt) ==
    [userId |-> userId, startTime |-> startTime, endTime |-> NoTime,
     completed |-> FALSE, createdAt |-> createdAt]

UserStats(userId) ==
    [userId |-> userId, totalHours |-> 0, sessionsCount |-> 0,
     currentStreak |-> 0, lastSessionDate |-> NoTime, weeklyData |-> ZeroWeek]

\* ---- datetime ----
Date(t) == t \div TicksPerDay
Weekday(t) == Date(t) % WeekLen
ActualDuration(endT, startT) == endT - startT

\* ---- store primitives ----
Matching(coll, userId) == {i \in 1..Len(coll) : coll[i].userId = userId}
Min(S) == CHOOSE x \in S : \A y \in S : x <= y

\* find_one({"userId": u}): the first match in natural order, <<>> when none
FindOneByUser(coll, userId) ==
    IF Matching(coll, userId) = {} THEN <<>>
    ELSE <<coll[Min(Matching(coll, userId))]>>

\* find_one({"_id": id})
FindOneById(coll, id) == IF id \in 1..Len(coll) THEN <<coll[id]>> ELSE <<>>

\* update_one({"userId": u}, {"$set": doc}): the first match only
UpdateOneByUser(coll, userId, doc) ==
    IF Matching(coll, userId) = {} THEN coll
    ELSE [coll EXCEPT ![Min(Matching(coll, userId))] =
              [f \in DOMAIN @ |-> IF f \in DOMAIN doc THEN doc[f] ELSE @[f]]]

\* variant: a completed session keeps its endTime
SetEnded_Once(coll, id, endT) ==
    IF id \in 1..Len(coll) /\ ~coll[id].completed
    THEN [coll EXCEPT ![id].endTime = endT, ![id].completed = TRUE]
    ELSE coll

\* update_one({"_id": id}, {"$set": {"endTime":..., "completed": True}})
SetEnded(coll, id, endT) ==
    IF id \in 1..Len(coll)
    THEN [coll EXCEPT ![id].endTime = endT, ![id].completed = TRUE]
    ELSE coll

\* ---- complete_session: the stats computation (lines 125-182) ----
DaysDiff(endT, last) == Date(endT) - Date(last)

\* variant: a completion on the next day leaves the streak as it was
CurrentStreak_NoIncrement(st, endT) ==
    IF st.lastSessionDate # NoTime
    THEN IF DaysDiff(endT, st.lastSessionDate) = 0 THEN st.currentStreak
         ELSE IF DaysDiff(endT, st.lastSessionDate) = 1 THEN st.currentStreak
         ELSE 1
    ELSE 1

\* variant: a gap does not break the streak
CurrentStreak_NoReset(st, endT) ==
    IF st.lastSessionDate # NoTime
    THEN IF DaysDiff(endT, st.lastSessionDate) = 0 THEN st.currentStreak
         ELSE IF DaysDiff(endT, st.lastSessionDate) = 1 THEN st.currentStreak + 1
         ELSE st.currentStreak
    ELSE 1

\* variant: a second completion on the same day starts the streak over
CurrentStreak_SameDayReset(st, endT) ==
    IF st.lastSessionDate # NoTime
    THEN IF DaysDiff(endT, st.lastSessionDate) = 0 THEN 1
         ELSE IF DaysDiff(endT, st.lastSessionDate) = 1 THEN st.currentStreak + 1
         ELSE 1
    ELSE 1

\* lines 151-166
CurrentStreak(st, endT) ==
    IF st.lastSessionDate # NoTime
    THEN IF DaysDiff(endT, st.lastSessionDate) = 0 THEN st.currentStreak
         ELSE IF DaysDiff(endT, st.lastSessionDate) = 1 THEN st.currentStreak + 1
         ELSE 1
    ELSE 1

\* variant: the prior total is dropped
NewTotalHours_Overwrite(st, dur) == dur

\* variant: the count is not incremented
NewSessionsCount_Same(st) == st.sessionsCount

\* lines 147-148
NewTotalHours(st, dur) == st.totalHours + dur
NewSessionsCount(st) == st.sessionsCount + 1

\* variant: the weekday index is counted from Sunday
AddWeekly_FromSunday(weekly, endT, dur) ==
    [weekly EXCEPT ![(Weekday(endT) + 1) % WeekLen] = @ + dur]

\* weekly_data[day_of_week] += actual_duration (lines 141-142, 169-171)
AddWeekly(weekly, endT, dur) ==
    [weekly EXCEPT ![Weekday(endT)] = @ + dur]

\* lines 134-144: the document inserted for a user without stats
NewStats(userId, endT, dur) ==
    [UserStats(userId) EXCEPT
        !.totalHours = dur,
        !.sessionsCount = 1,
        !.currentStreak = 1,
        !.lastSessionDate = endT,
        !.weeklyData = AddWeekly(ZeroWeek, endT, dur)]

\* variant: lastSessionDate is the session's start
StatsUpdate_StartTime(st, endT, dur) ==
    [totalHours |-> NewTotalHours(st, dur),
     sessionsCount |-> NewSessionsCount(st),
     currentStreak |-> CurrentStreak(st, endT),
     lastSessionDate |-> endT - dur,
     weeklyData |-> AddWeekly(st.weeklyData, endT, dur)]

\* lines 173-182: the $set document of the update
StatsUpdate(st, endT, dur) ==
    [totalHours |-> NewTotalHours(st, dur),
     sessionsCount |-> NewSessionsCount(st),
     currentStreak |-> CurrentStreak(st, endT),
     lastSessionDate |-> endT,
     weeklyData |-> AddWeekly(st.weeklyData, endT, dur)]

\* variant: the update is computed from the stored document, not from the
\* one read earlier
WriteStats_Fresh(coll, st, userId, endT, dur) ==
    IF st = <<>>
    THEN Append(coll, NewStats(userId, endT, dur))
    ELSE UpdateOneByUser(coll, userId,
                         StatsUpdate(FindOneByUser(coll, userId)[1], endT, dur))

\* lines 132-182: the write to db.user_stats
WriteStats(coll, st, userId, endT, dur) ==
    IF st = <<>>
    THEN Append(coll, NewStats(userId, endT, dur))
    ELSE UpdateOneByUser(coll, userId, StatsUpdate(st[1], endT, dur))

\* ---- get_session_history: find().sort("createdAt", -1).limit(limit) ----
RECURSIVE Perms(_)
Perms(S) ==
    IF S = {} THEN {<<>>}
    ELSE UNION {{<<x>> \o r : r \in Perms(S \ {x})} : x \in S}

\* variant: sort("createdAt", 1)
SortedByCreatedAtAsc(coll, ids) ==
    {r \in Perms(ids) :
        \A i \in 1..(Len(r) - 1) : coll[r[i]].createdAt <= coll[r[i + 1]].createdAt}

\* the order among equal createdAt is not fixed by the sort
SortedByCreatedAtDesc(coll, ids) ==
    {r \in Perms(ids) :
        \A i \in 1..(Len(r) - 1) : coll[r[i]].createdAt >= coll[r[i + 1]].createdAt}

\* variant: the limit is not applied
Limit_None(r, n) == r

Limit(r, n) == IF Len(r) <= n THEN r ELSE SubSeq(r, 1, n)

HistoryResults(coll, userId, limit) ==
    {Limit(r, limit) : r \in SortedByCreatedAtDesc(coll, Matching(coll, userId))}

\* ---- state after start-up ----
NoLedger == [count |-> 0, hours |-> 0, byWeekday |-> ZeroWeek]

NoResp == [status |-> 0, op |-> "none", client |-> 0]

Init ==
    /\ clock = 0
    /\ focus_sessions = <<>>
    /\ user_stats = <<>>
    /\ pc = [p \in Procs |-> "idle"]
    /\ complete_data = [p \in Procs |-> <<>>]
    /\ session = [p \in Procs |-> <<>>]
    /\ end_time = [p \in Procs |-> NoTime]
    /\ stats = [p \in Procs |-> <<>>]
    /\ resp = NoResp
    /\ created = <<>>
    /\ ledger = [u \in Users |-> NoLedger]
    /\ overtaken = [p \in Procs |-> FALSE]
    /\ schedules = <<>>
    /\ inserted = 0
    /\ schedule = [p \in Procs |-> <<>>]
    /\ toggles = <<>>

\* utcnow() advances
Tick ==
    /\ resp = NoResp
    /\ \E t \in Instants : t > clock
    /\ clock' = Min({t \in Instants : t > clock})
    /\ resp' = NoResp
    /\ UNCHANGED <<focus_sessions, user_stats, pc, complete_data, session,
                   end_time, stats, created, ledger>>
    /\ UNCHANGED <<overtaken, schedVars>>

InFlight(labels) == Cardinality({q \in Procs : pc[q] \in labels})

\* ---- start_session (lines 92-107) ----
\* the createdAt of the sessions built so far, stored or about to be
BuiltAt ==
    {focus_sessions[i].createdAt : i \in 1..Len(focus_sessions)}
        \cup {session[q][1].createdAt : q \in {r \in Procs : pc[r] = "insert_session"}}

\* lines 95-101: the session is built, startTime and createdAt read the clock.
\* utcnow() has microsecond resolution and the handlers of the process run one
\* at a time between awaits: no two sessions are built at the same instant.
StartSession(p, userId) ==
    /\ pc[p] = "idle"
    /\ resp = NoResp
    /\ Len(focus_sessions) + InFlight({"insert_session"}) < MaxSessions
    /\ clock \notin BuiltAt
    /\ session' = [session EXCEPT ![p] = <<FocusSession(userId, clock, clock)>>]
    /\ pc' = [pc EXCEPT ![p] = "insert_session"]
    /\ resp' = NoResp
    /\ UNCHANGED <<clock, focus_sessions, user_stats, complete_data,
                   end_time, stats, created, ledger>>
    /\ UNCHANGED <<overtaken, schedVars>>

\* lines 103-107: insert_one, then the response with the new _id
InsertSession(p) ==
    /\ pc[p] = "insert_session"
    /\ resp = NoResp
    /\ focus_sessions' = Append(focus_sessions, session[p][1])
    /\ resp' = [status |-> 200, op |-> "start", client |-> p,
                id |-> Len(focus_sessions) + 1,
                userId |-> session[p][1].userId]
    /\ session' = [session EXCEPT ![p] = <<>>]
    /\ pc' = [pc EXCEPT ![p] = "idle"]
    /\ UNCHANGED <<clock, user_stats, complete_data, end_time, stats,
                   created, ledger>>
    /\ UNCHANGED <<overtaken, schedVars>>

\* ---- complete_session (lines 109-184) ----
RECURSIVE SumOver(_, _)
SumOver(f, S) ==
    IF S = {} THEN 0
    ELSE LET x == CHOOSE y \in S : TRUE IN f[x] + SumOver(f, S \ {x})

Completions == SumOver([u \in Users |-> ledger[u].count], Users)

CompleteLabels == {"got_session", "update_session", "find_stats", "write_stats"}

\* variant: an unknown session still gets the user a stats document
FindSession_Upsert(p, sessionId, userId) ==
    /\ pc[p] = "idle"
    /\ resp = NoResp
    /\ IF FindOneById(focus_sessions, sessionId) = <<>>
       THEN /\ resp' = [status |-> 404, op |-> "complete", client |-> p,
                        sessionId |-> sessionId]
            /\ user_stats' = Append(user_stats, UserStats(userId))
            /\ UNCHANGED <<pc, complete_data, session>>
       ELSE /\ Completions + InFlight(CompleteLabels) < MaxCompletions
            /\ complete_data' = [complete_data EXCEPT ![p] =
                          <<[sessionId |-> sessionId, userId |-> userId]>>]
            /\ session' = [session EXCEPT ![p] =
                          FindOneById(focus_sessions, sessionId)]
            /\ pc' = [pc EXCEPT ![p] = "got_session"]
            /\ resp' = NoResp
            /\ UNCHANGED user_stats
    /\ UNCHANGED <<clock, focus_sessions, end_time, stats, created, ledger>>
    /\ UNCHANGED <<overtaken, schedVars>>

\* lines 115-117: find_one by _id; 404 when there is no such session
FindSession(p, sessionId, userId) ==
    /\ pc[p] = "idle"
    /\ resp = NoResp
    /\ IF FindOneById(focus_sessions, sessionId) = <<>>
       THEN /\ resp' = [status |-> 404, op |-> "complete", client |-> p,
                        sessionId |-> sessionId]
            /\ UNCHANGED <<pc, complete_data, session>>
       ELSE /\ Completions + InFlight(CompleteLabels) < MaxCompletions
            /\ complete_data' = [complete_data EXCEPT ![p] =
                          <<[sessionId |-> sessionId, userId |-> userId]>>]
            /\ session' = [session EXCEPT ![p] =
                          FindOneById(focus_sessions, sessionId)]
            /\ pc' = [pc EXCEPT ![p] = "got_session"]
            /\ resp' = NoResp
    /\ UNCHANGED <<clock, focus_sessions, user_stats, end_time, stats,
                   created, ledger>>
    /\ UNCHANGED <<overtaken, schedVars>>

\* line 119: end_time = datetime.utcnow()
SetEndTime(p) ==
    /\ pc[p] = "got_session"
    /\ resp = NoResp
    /\ end_time' = [end_time EXCEPT ![p] = clock]
    /\ pc' = [pc EXCEPT ![p] = "update_session"]
    /\ resp' = NoResp
    /\ UNCHANGED <<clock, focus_sessions, user_stats, complete_data, session,
                   stats, created, ledger>>
    /\ UNCHANGED <<overtaken, schedVars>>

\* lines 120-123: update_one sets endTime and completed
UpdateSession(p) ==
    /\ pc[p] = "update_session"
    /\ resp = NoResp
    /\ focus_sessions' =
          SetEnded(focus_sessions, complete_data[p][1].sessionId, end_time[p])
    /\ pc' = [pc EXCEPT ![p] = "find_stats"]
    /\ resp' = NoResp
    /\ UNCHANGED <<clock, user_stats, complete_data, session, end_time,
                   stats, created, ledger>>
    /\ UNCHANGED <<overtaken, schedVars>>

\* variant: the stats of the session's owner are the ones updated
StatsUser_Owner(data, sess) == sess.userId

\* lines 130, 134, 174: the stats document is that of complete_data.userId
StatsUser(data, sess) == data.userId

\* line 130: find_one on user_stats
FindStats(p) ==
    /\ pc[p] = "find_stats"
    /\ resp = NoResp
    /\ stats' = [stats EXCEPT ![p] =
                   FindOneByUser(user_stats,
                                 StatsUser(complete_data[p][1], session[p][1]))]
    /\ pc' = [pc EXCEPT ![p] = "write_stats"]
    /\ resp' = NoResp
    /\ UNCHANGED <<clock, focus_sessions, user_stats, complete_data, session,
                   end_time, created, ledger>>
    /\ UNCHANGED <<overtaken, schedVars>>

\* lines 126-127, 132-184: insert_one or update_one, then the response
WriteUserStats(p) ==
    /\ pc[p] = "write_stats"
    /\ resp = NoResp
    /\ LET userId == complete_data[p][1].userId
           dur == ActualDuration(end_time[p], session[p][1].startTime)
       IN /\ user_stats' = WriteStats(user_stats, stats[p],
                                      StatsUser(complete_data[p][1], session[p][1]),
                                      end_time[p], dur)
          /\ resp' = [status |-> 200, op |-> "complete", client |-> p,
                      duration |-> dur,
                      \* the handler's locals when it returned
                      sessionId |-> complete_data[p][1].sessionId,
                      userId |-> userId,
                      session |-> session[p][1],
                      end_time |-> end_time[p],
                      stats |-> stats[p]]
          /\ ledger' = [ledger EXCEPT ![userId] =
                        [count |-> @.count + 1,
                         hours |-> @.hours + dur,
                         byWeekday |-> [d \in 0..(WeekLen - 1) |->
                             IF d = Weekday(end_time[p])
                             THEN @.byWeekday[d] + dur ELSE @.byWeekday[d]]]]
    /\ complete_data' = [complete_data EXCEPT ![p] = <<>>]
    /\ session' = [session EXCEPT ![p] = <<>>]
    /\ end_time' = [end_time EXCEPT ![p] = NoTime]
    /\ stats' = [stats EXCEPT ![p] = <<>>]
    /\ pc' = [pc EXCEPT ![p] = "idle"]
    /\ UNCHANGED <<clock, focus_sessions, created>>
    /\ overtaken' = [q \in Procs |->
          IF q # p /\ pc[q] \in {"update_session", "find_stats", "write_stats"}
                  /\ complete_data[q][1].userId = complete_data[p][1].userId
          THEN TRUE
          ELSE IF q = p THEN FALSE ELSE overtaken[q]]
    /\ UNCHANGED schedVars

\* ---- get_session_history (lines 186-196) ----
GetSessionHistory(p, userId, limit) ==
    /\ pc[p] = "idle"
    /\ resp = NoResp
    /\ \E r \in HistoryResults(focus_sessions, userId, limit) :
          resp' = [status |-> 200, op |-> "history", client |-> p,
                   userId |-> userId, limit |-> limit, sessions |-> r,
                   \* the session this client's previous request created
                   previous |-> IF created # <<>> /\ created[1] = p
                                THEN created[2] ELSE 0]
    /\ UNCHANGED <<clock, focus_sessions, user_stats, pc, complete_data,
                   session, end_time, stats, created, ledger>>
    /\ UNCHANGED <<overtaken, schedVars>>

\* variant: the default record is persisted
GetStats_Persist(p, userId) ==
    /\ pc[p] = "idle"
    /\ resp = NoResp
    /\ resp' = [status |-> 200, op |-> "stats", client |-> p, userId |-> userId,
                found |-> FindOneByUser(user_stats, userId) # <<>>,
                body |-> IF FindOneByUser(user_stats, userId) = <<>>
                         THEN UserStats(userId)
                         ELSE FindOneByUser(user_stats, userId)[1]]
    /\ user_stats' = IF FindOneByUser(user_stats, userId) = <<>>
                     THEN Append(user_stats, UserStats(userId))
                     ELSE user_stats
    /\ UNCHANGED <<clock, focus_sessions, pc, complete_data,
                   session, end_time, stats, created, ledger>>
    /\ UNCHANGED <<overtaken, schedVars>>

\* ---- get_stats (lines 198-209) ----
GetStats(p, userId) ==
    /\ pc[p] = "idle"
    /\ resp = NoResp
    /\ resp' = [status |-> 200, op |-> "stats", client |-> p, userId |-> userId,
                found |-> FindOneByUser(user_stats, userId) # <<>>,
                body |-> IF FindOneByUser(user_stats, userId) = <<>>
                         THEN UserStats(userId)
                         ELSE FindOneByUser(user_stats, userId)[1]]
    /\ UNCHANGED <<clock, focus_sessions, user_stats, pc, complete_data,
                   session, end_time, stats, created, ledger>>
    /\ UNCHANGED <<overtaken, schedVars>>

\* ---- schedules (lines 68-80, 211-265) ----
Names == {"morning", "evening"}
ScheduleIds == 1..MaxSchedules

Schedule(userId, name, createdAt) ==
    [userId |-> userId, time |-> "09:00", days |-> <<"Mon", "Wed">>,
     enabled |-> TRUE, name |-> name, createdAt |-> createdAt]

\* the document as stored, with its _id
Stored(doc, id) ==
    [f \in DOMAIN doc \cup {"_id"} |-> IF f = "_id" THEN id ELSE doc[f]]

WithId(coll, id) == {i \in 1..Len(coll) : coll[i]._id = id}

\* find_one({"_id": id}) on db.schedules
FindScheduleById(coll, id) ==
    IF WithId(coll, id) = {} THEN <<>> ELSE <<coll[Min(WithId(coll, id))]>>

\* variant: the filter is ignored and the first document goes
DeleteOne_Head(coll, id) ==
    IF coll = <<>> THEN coll ELSE SubSeq(coll, 2, Len(coll))

\* delete_one({"_id": id})
DeleteOne(coll, id) ==
    IF WithId(coll, id) = {} THEN coll
    ELSE LET k == Min(WithId(coll, id))
         IN SubSeq(coll, 1, k - 1) \o SubSeq(coll, k + 1, Len(coll))

\* update_one({"_id": id}, {"$set": {"enabled": v}})
SetEnabled(coll, id, v) ==
    IF WithId(coll, id) = {} THEN coll
    ELSE [coll EXCEPT ![Min(WithId(coll, id))].enabled = v]

\* variant: the toggle only ever disables
NewStatus_Off(doc) == FALSE

\* line 258: new_status = not schedule.get("enabled", True)
NewStatus(doc) == ~doc.enabled

NoToggles == [count |-> 0, last |-> TRUE]
ToggleCount == SumOver([i \in 1..Len(toggles) |-> toggles[i].count], 1..Len(toggles))

\* lines 214-219: the schedule is built
CreateSchedule(p, userId, name) ==
    /\ pc[p] = "idle"
    /\ resp = NoResp
    /\ inserted + InFlight({"insert_schedule"}) < MaxSchedules
    /\ schedule' = [schedule EXCEPT ![p] = <<Schedule(userId, name, clock)>>]
    /\ pc' = [pc EXCEPT ![p] = "insert_schedule"]
    /\ UNCHANGED <<resp, schedules, inserted, toggles, sessionVars>>

\* lines 221-225: insert_one, then the response with the new _id
InsertSchedule(p) ==
    /\ pc[p] = "insert_schedule"
    /\ resp = NoResp
    /\ schedules' = Append(schedules, Stored(schedule[p][1], inserted + 1))
    /\ inserted' = inserted + 1
    /\ toggles' = Append(toggles, NoToggles)
    /\ resp' = [status |-> 200, op |-> "create_schedule", client |-> p,
                id |-> inserted + 1]
    /\ schedule' = [schedule EXCEPT ![p] = <<>>]
    /\ pc' = [pc EXCEPT ![p] = "idle"]
    /\ UNCHANGED sessionVars

\* lines 227-235: find({"userId": u}).to_list(100)
GetSchedules(p, userId) ==
    /\ pc[p] = "idle"
    /\ resp = NoResp
    /\ resp' = [status |-> 200, op |-> "schedules", client |-> p,
                userId |-> userId,
                schedules |-> SelectSeq(schedules, LAMBDA d : d.userId = userId)]
    /\ UNCHANGED <<pc, schedVars, sessionVars>>

\* lines 237-247: delete_one, 404 when nothing was deleted
DeleteSchedule(p, id) ==
    /\ pc[p] = "idle"
    /\ resp = NoResp
    /\ schedules' = DeleteOne(schedules, id)
    /\ resp' = [status |-> IF Len(DeleteOne(schedules, id)) = Len(schedules)
                           THEN 404 ELSE 200,
                op |-> "delete_schedule", client |-> p, id |-> id]
    /\ UNCHANGED <<pc, inserted, schedule, toggles, sessionVars>>

\* lines 254-256: find_one by _id; 404 when there is no such schedule
FindSchedule(p, id) ==
    /\ pc[p] = "idle"
    /\ resp = NoResp
    /\ IF FindScheduleById(schedules, id) = <<>>
       THEN /\ resp' = [status |-> 404, op |-> "toggle", client |-> p, id |-> id]
            /\ UNCHANGED <<pc, schedule>>
       ELSE /\ ToggleCount + InFlight({"update_schedule"}) < MaxToggles
            /\ schedule' = [schedule EXCEPT ![p] = FindScheduleById(schedules, id)]
            /\ pc' = [pc EXCEPT ![p] = "update_schedule"]
            /\ UNCHANGED resp
    /\ UNCHANGED <<schedules, inserted, toggles, sessionVars>>

\* lines 258-265: update_one with the negated value read, then the response
UpdateSchedule(p) ==
    /\ pc[p] = "update_schedule"
    /\ resp = NoResp
    /\ LET id == schedule[p][1]._id
           new_status == NewStatus(schedule[p][1])
       IN /\ schedules' = SetEnabled(schedules, id, new_status)
          /\ resp' = [status |-> 200, op |-> "toggle", client |-> p, id |-> id,
                      enabled |-> new_status,
                      \* what the handler read, and what the toggle response
                      \* before this one returned
                      schedule |-> schedule[p][1],
                      before |-> toggles[id].last]
          /\ toggles' = [toggles EXCEPT ![id] =
                           [count |-> @.count + 1, last |-> new_status]]
    /\ schedule' = [schedule EXCEPT ![p] = <<>>]
    /\ pc' = [pc EXCEPT ![p] = "idle"]
    /\ UNCHANGED <<inserted, sessionVars>>

\* the client takes the response off the wire
Receive ==
    /\ resp # NoResp
    /\ resp' = NoResp
    /\ UNCHANGED <<clock, focus_sessions, user_stats, pc, complete_data,
                   session, end_time, stats, created, ledger>>
    /\ UNCHANGED <<overtaken, schedVars>>

\* the client takes the response off the wire and notes what its last request
\* created
ReceiveAndNote ==
    /\ resp # NoResp
    /\ resp' = NoResp
    /\ created' = IF resp.op = "start" THEN <<resp.client, resp.id>>
                  ELSE IF created # <<>> /\ created[1] = resp.client THEN <<>>
                  ELSE created
    /\ UNCHANGED <<clock, focus_sessions, user_stats, pc, complete_data,
                   session, end_time, stats, ledger>>
    /\ UNCHANGED <<overtaken, schedVars>>

\* ---- the steps of the handlers serving client p, with userIds from U ----
StartStep(p, U) ==
    \/ \E userId \in U : StartSession(p, userId)
    \/ InsertSession(p)

CompleteStep(p, U) ==
    \/ \E sessionId \in SessionIds, userId \in U : FindSession(p, sessionId, userId)
    \/ SetEndTime(p)
    \/ UpdateSession(p)
    \/ FindStats(p)
    \/ WriteUserStats(p)

HistoryStep(p, U) ==
    \E userId \in U, limit \in 1..MaxLimit : GetSessionHistory(p, userId, limit)

StatsStep(p, U) ==
    \E userId \in U : GetStats(p, userId)

\* sessions of the default user started and completed by concurrent requests
Next ==
    \/ Tick
    \/ Receive
    \/ \E p \in Procs : StartStep(p, {DefaultUser})
    \/ \E p \in Procs : CompleteStep(p, {DefaultUser})

Spec == Init /\ [][Next]_vars

\* every handler, for two users, one request at a time (a single client)
SeqNext ==
    \/ Tick
    \/ Receive
    \/ StartStep(1, Users)
    \/ CompleteStep(1, Users)
    \/ HistoryStep(1, Users)
    \/ StatsStep(1, Users)

SeqSpec == Init /\ [][SeqNext]_vars

\* sessions of two users started and listed by concurrent requests of clients
\* that note what they created
HistNext ==
    \/ Tick
    \/ ReceiveAndNote
    \/ \E p \in Procs : StartStep(p, Users)
    \/ \E p \in Procs : HistoryStep(p, Users)

HistSpec == Init /\ [][HistNext]_vars

CreateStep(p, U) ==
    \/ \E userId \in U, name \in Names : CreateSchedule(p, userId, name)
    \/ InsertSchedule(p)

ToggleStep(p) ==
    \/ \E id \in ScheduleIds : FindSchedule(p, id)
    \/ UpdateSchedule(p)

DeleteStep(p) == \E id \in ScheduleIds : DeleteSchedule(p, id)

ListStep(p, U) == \E userId \in U : GetSchedules(p, userId)

\* schedules created, toggled and deleted by concurrent requests
SchedNext ==
    \/ Receive
    \/ \E p \in Procs : CreateStep(p, {DefaultUser})
    \/ \E p \in Procs : ToggleStep(p)
    \/ \E p \in Procs : DeleteStep(p)

SchedSpec == Init /\ [][SchedNext]_vars

\* every schedule handler, for two users, one request at a time
SchedSeqNext ==
    \/ Receive
    \/ CreateStep(1, Users)
    \/ ToggleStep(1)
    \/ DeleteStep(1)
    \/ ListStep(1, Users)

SchedSeqSpec == Init /\ [][SchedSeqNext]_vars

(***************************************************************************)
(* Properties                                                              *)
(***************************************************************************)
\* A complete_session response is on the wire in the state right after the
\* stats write, and carries the handler's locals.
Completed == resp.op = "complete" /\ resp.status = 200
Updated == Completed /\ resp.stats # <<>>
Prior == resp.stats[1]
\* the document the handler wrote: the one appended by insert_one, or the one
\* update_one matched
Written ==
    IF resp.stats = <<>> THEN user_stats[Len(user_stats)]
    ELSE user_stats[Min(Matching(user_stats, resp.userId))]
CalendarDays == (resp.end_time \div TicksPerDay) - (Prior.lastSessionDate \div TicksPerDay)

\* C1: a completion for a user with a stats record, dated exactly one
\* calendar day after the record's lastSessionDate, writes the prior
\* currentStreak plus 1.
C1_StreakIncrement ==
    (Updated /\ CalendarDays = 1) => Written.currentStreak = Prior.currentStreak + 1

C1_Witness ==
    Updated /\ CalendarDays = 1 /\ Written.currentStreak = 2

\* C2: a completion for a user with a stats record whose calendar-day
\* difference to lastSessionDate is neither 0 nor 1 (larger, or negative)
\* writes currentStreak 1 whatever the prior streak; a first completion
\* (no record found) writes 1 as well.
C2_StreakReset ==
    /\ (Updated /\ CalendarDays \notin {0, 1}) => Written.currentStreak = 1
    /\ (Completed /\ resp.stats = <<>>) => Written.currentStreak = 1

\* Monday, Tuesday, Thursday: the streak was 2 and the gap resets it
C2_Witness ==
    Updated /\ CalendarDays = 2 /\ Prior.currentStreak = 2
            /\ Written.currentStreak = 1 /\ Written.sessionsCount = 3

\* C3: with requests served one after another, after N completions for a
\* userId the persisted totalHours is the sum of their N actual durations
\* and sessionsCount is N.
C3_TotalIsSum ==
    \A u \in Users :
        ledger[u].count > 0 =>
            /\ Cardinality(Matching(user_stats, u)) = 1
            /\ FindOneByUser(user_stats, u)[1].totalHours = ledger[u].hours
            /\ FindOneByUser(user_stats, u)[1].sessionsCount = ledger[u].count

C3_Witness ==
    \E u \in Users :
        /\ ledger[u].count = 3
        /\ ledger[u].hours = 6
        /\ FindOneByUser(user_stats, u)[1].totalHours = 6

\* C4: with requests served one after another, weeklyData[d] of a user is
\* the sum of the durations of the completions dated on weekday d
\* (0 = Monday); a completion changes no entry but its own weekday's, and
\* weeklyData always has the seven entries 0..6.
C4_WeeklyIsSum ==
    /\ \A i \in 1..Len(user_stats) : DOMAIN user_stats[i].weeklyData = 0..6
    /\ \A u \in Users :
          ledger[u].count > 0 =>
              \A d \in 0..6 :
                  FindOneByUser(user_stats, u)[1].weeklyData[d] = ledger[u].byWeekday[d]
    /\ Updated =>
          \A d \in 0..6 :
              d # (resp.end_time \div TicksPerDay) % 7 =>
                  Written.weeklyData[d] = Prior.weeklyData[d]

C4_Witness ==
    /\ Updated
    /\ Written.weeklyData[0] > 0
    /\ Written.weeklyData[1] > 0
    /\ Written.weeklyData[3] > 0
    /\ Written.weeklyData[3] = Prior.weeklyData[3] + resp.duration

\* endTime - startTime summed over the completed sessions of u among the
\* first n stored
RECURSIVE CompletedHours(_, _)
CompletedHours(u, n) ==
    IF n = 0 THEN 0
    ELSE CompletedHours(u, n - 1) +
         (IF focus_sessions[n].userId = u /\ focus_sessions[n].completed
          THEN focus_sessions[n].endTime - focus_sessions[n].startTime
          ELSE 0)

\* C5: whenever no request is in flight, each user's persisted totalHours
\* equals the sum of endTime - startTime over the sessions of that user
\* that are marked completed.
C5_TotalMatchesSessions ==
    (\A p \in Procs : pc[p] = "idle") =>
        \A u \in Users :
            \A i \in Matching(user_stats, u) :
                user_stats[i].totalHours = CompletedHours(u, Len(focus_sessions))

C7_DefaultStats ==
    [][resp'.op = "stats" =>
         /\ user_stats' = user_stats
         /\ resp'.found = (\E i \in 1..Len(user_stats) :
                              user_stats[i].userId = resp'.userId)
         /\ ~resp'.found =>
               resp'.body = [userId |-> resp'.userId, totalHours |-> 0,
                             sessionsCount |-> 0, currentStreak |-> 0,
                             lastSessionDate |-> NoTime,
                             weeklyData |-> [d \in 0..6 |-> 0]]]_vars

C7_Witness ==
    resp.op = "stats" /\ ~resp.found /\ resp.body.sessionsCount = 0
                      /\ Len(user_stats) = 1

\* C8: in every reachable state, under any interleaving of completions,
\* user_stats holds at most one record per userId.
C8_OneRecordPerUser ==
    \A u \in Users : Cardinality(Matching(user_stats, u)) <= 1

\* C9: endTime and completed of a session are set together, exactly once,
\* and never change once set.
C9_SetOnce ==
    [][\A i \in 1..Len(focus_sessions) :
          /\ focus_sessions'[i].completed <=> focus_sessions'[i].endTime # NoTime
          /\ focus_sessions[i].completed =>
                /\ focus_sessions'[i].completed
                /\ focus_sessions'[i].endTime = focus_sessions[i].endTime]_vars

\* a listing with limit 1 is on the wire, for the userId of the session the
\* same client's previous request created
Listed == resp.op = "history" /\ resp.previous # 0 /\ resp.limit = 1
            /\ focus_sessions[resp.previous].userId = resp.userId

\* C10 as stated: start_session followed by get_session_history(limit=1) of
\* the same client and userId returns exactly the session just created.
C10_JustCreatedListed ==
    Listed => resp.sessions = <<resp.previous>>

\* C10 amended: the listing has exactly one element, a session of that
\* userId created no earlier than the one just created; it is the session
\* just created whenever every other stored session of that userId has an
\* earlier createdAt.
C10_NewestListed ==
    Listed =>
        /\ Len(resp.sessions) = 1
        /\ focus_sessions[resp.sessions[1]].userId = resp.userId
        /\ focus_sessions[resp.sessions[1]].createdAt
               >= focus_sessions[resp.previous].createdAt
        /\ (\A i \in 1..Len(focus_sessions) :
               (i # resp.previous /\ focus_sessions[i].userId = resp.userId) =>
                   focus_sessions[i].createdAt
                       < focus_sessions[resp.previous].createdAt)
           => resp.sessions = <<resp.previous>>

C10_Witness ==
    /\ Listed
    /\ resp.sessions = <<resp.previous>>
    /\ \E i \in 1..Len(focus_sessions) :
          /\ i # resp.previous
          /\ focus_sessions[i].userId = resp.userId
          /\ focus_sessions[i].createdAt < focus_sessions[resp.previous].createdAt

C12_ToggleFlips ==
    [][/\ \A i \in 1..Len(schedules') :
             schedules'[i].enabled = (toggles'[schedules'[i]._id].count % 2 = 0)
       /\ (resp'.op = "toggle" /\ resp'.status = 200) =>
             /\ Len(schedules') = Len(schedules)
             /\ \A i \in 1..Len(schedules) :
                   IF schedules[i]._id = resp'.id
                   THEN /\ schedules'[i].enabled = ~schedules[i].enabled
                        /\ resp'.enabled = schedules'[i].enabled
                        /\ schedules'[i] =
                              [schedules[i] EXCEPT !.enabled = ~schedules[i].enabled]
                   ELSE schedules'[i] = schedules[i]]_vars

C12_Witness ==
    /\ resp.op = "toggle"
    /\ resp.status = 200
    /\ resp.enabled
    /\ toggles[resp.id].count = 2
    /\ Len(schedules) = 2

\* C13: get_session_history(userId, limit) returns at most limit sessions,
\* all of userId, newest createdAt first, none omitted that is newer than a
\* returned one (nothing is omitted while there is room); the empty sequence
\* for a user without sessions; no collection is modified.
C13_History ==
    [][resp'.op = "history" =>
         LET r == resp'.sessions
             mine == {i \in 1..Len(focus_sessions) :
                         focus_sessions[i].userId = resp'.userId}
             listed == {r[k] : k \in 1..Len(r)}
         IN /\ focus_sessions' = focus_sessions
            /\ user_stats' = user_stats
            /\ schedules' = schedules
            /\ Len(r) <= resp'.limit
            /\ listed \subseteq mine
            /\ Cardinality(listed) = Len(r)
            /\ \A j, k \in 1..Len(r) :
                  j < k => focus_sessions[r[j]].createdAt
                               >= focus_sessions[r[k]].createdAt
            /\ \A i \in mine \ listed : \A k \in listed :
                  focus_sessions[i].createdAt <= focus_sessions[k].createdAt
            /\ mine \ listed # {} => Len(r) = resp'.limit]_vars

\* two sessions of the user, limit 1: the older one is left out
C13_Witness ==
    /\ resp.op = "history"
    /\ resp.limit = 1
    /\ Len(resp.sessions) = 1
    /\ Cardinality({i \in 1..Len(focus_sessions) :
                       focus_sessions[i].userId = resp.userId}) = 2

\* C14: when two completions of one user both read the same stats record
\* before either writes, each update is computed from the record read, so
\* the later write wins: sessionsCount is the read count + 1 and totalHours
\* and weeklyData are the read values plus the writer's own duration, the
\* other completion's contribution being lost.
C14_LaterWriteWins ==
    Updated =>
        /\ Written.sessionsCount = Prior.sessionsCount + 1
        /\ Written.totalHours = Prior.totalHours + resp.duration
        /\ \A d \in 0..6 :
              Written.weeklyData[d] =
                  Prior.weeklyData[d] +
                  (IF d = (resp.end_time \div TicksPerDay) % 7
                   THEN resp.duration ELSE 0)

\* one record, three completions counted by the ledger, two by the record
C14_Witness ==
    /\ Updated
    /\ Len(user_stats) = 1
    /\ ledger[resp.userId].count = 3
    /\ Written.sessionsCount = 2
    /\ Written.totalHours < ledger[resp.userId].hours

\* C15: complete_session on a session that is already completed succeeds,
\* overwrites endTime with the new end_time and applies the stats update
\* again: sessionsCount grows by 1 and totalHours by the time from the
\* original startTime to the new end_time.
C15_NotIdempotent ==
    (Completed /\ resp.session.completed) =>
        /\ focus_sessions[resp.sessionId].completed
        /\ focus_sessions[resp.sessionId].endTime = resp.end_time
        /\ focus_sessions[resp.sessionId].startTime = resp.session.startTime
        /\ resp.duration = resp.end_time - resp.session.startTime
        /\ Written.sessionsCount =
              (IF resp.stats = <<>> THEN 1 ELSE Prior.sessionsCount + 1)
        /\ Written.totalHours =
              (IF resp.stats = <<>> THEN 0 ELSE Prior.totalHours) + resp.duration

C15_Witness ==
    /\ Updated
    /\ resp.session.completed
    /\ resp.session.userId = resp.userId
    /\ resp.end_time > resp.session.endTime
    /\ Written.sessionsCount = 2
    /\ Written.totalHours = Prior.totalHours + resp.duration

\* C16: a completion on the same calendar day as the lastSessionDate read
\* writes the read currentStreak, and still updates sessionsCount,
\* totalHours, weeklyData and lastSessionDate.
C16_SameDay ==
    (Updated /\ CalendarDays = 0) =>
        /\ Written.currentStreak = Prior.currentStreak
        /\ Written.sessionsCount = Prior.sessionsCount + 1
        /\ Written.totalHours = Prior.totalHours + resp.duration
        /\ Written.lastSessionDate = resp.end_time
        /\ Written.weeklyData[(resp.end_time \div TicksPerDay) % 7] =
              Prior.weeklyData[(resp.end_time \div TicksPerDay) % 7] + resp.duration

C16_Witness ==
    /\ Updated
    /\ CalendarDays = 0
    /\ Prior.currentStreak = 2
    /\ Written.currentStreak = 2
    /\ resp.duration > 0

\* C17: complete_session updates (or creates) the stats record of the userId
\* in the request, not of the session's owner: the records of every other
\* userId, the owner's included, stay as they were.
C17_RequestUser ==
    [][(resp'.op = "complete" /\ resp'.status = 200) =>
         /\ \A i \in 1..Len(user_stats) :
               user_stats[i].userId # resp'.userId => user_stats'[i] = user_stats[i]
         /\ \A i \in 1..Len(user_stats') :
               (i > Len(user_stats) \/ user_stats'[i] # user_stats[i]) =>
                   user_stats'[i].userId = resp'.userId
         /\ \E i \in 1..Len(user_stats') :
               /\ user_stats'[i].userId = resp'.userId
               /\ i > Len(user_stats) \/
                    user_stats'[i].sessionsCount = user_stats[i].sessionsCount + 1]_vars

\* user A's session completed with userId B, both with a record
C17_Witness ==
    /\ Completed
    /\ resp.session.userId # resp.userId
    /\ Len(user_stats) = 2
    /\ Written.userId = resp.userId

\* C18: every persisted stats record has 1 <= currentStreak <= sessionsCount
\* in every reachable state, under any interleaving.
C18_StreakBounds ==
    \A i \in 1..Len(user_stats) :
        /\ 1 <= user_stats[i].currentStreak
        /\ user_stats[i].currentStreak <= user_stats[i].sessionsCount

\* a lost update: streak and count are both 2 after three completions
C18_Witness ==
    \E i \in 1..Len(user_stats) :
        /\ user_stats[i].currentStreak = 2
        /\ user_stats[i].sessionsCount = 2
        /\ ledger[user_stats[i].userId].count = 3

\* C19 as stated: with a non-decreasing clock no write stores a
\* lastSessionDate earlier than the one it replaces, and no completion
\* computes a negative day difference.
C19_NeverBackwards ==
    [][/\ \A i \in 1..Len(user_stats) :
             user_stats'[i].lastSessionDate >= user_stats[i].lastSessionDate
       /\ (resp'.op = "complete" /\ resp'.status = 200 /\ resp'.stats # <<>>) =>
             (resp'.end_time \div TicksPerDay)
                 >= (resp'.stats[1].lastSessionDate \div TicksPerDay)]_vars

\* C19 amended: a write stores an earlier lastSessionDate than the one it
\* replaces, or follows a negative day difference, only when another
\* completion of the same userId wrote the record after the writer had read
\* its end_time; stored dates are never later than the clock.
C19_BackwardsOnlyOvertaken ==
    [][/\ \A i \in 1..Len(user_stats') : user_stats'[i].lastSessionDate <= clock'
       /\ \A p \in Procs :
             (pc[p] = "write_stats" /\ pc'[p] = "idle" /\ ~overtaken[p]) =>
                 /\ \A i \in 1..Len(user_stats) :
                       user_stats'[i].lastSessionDate >= user_stats[i].lastSessionDate
                 /\ stats[p] # <<>> => end_time[p] >= stats[p][1].lastSessionDate
       /\ (\A q \in Procs : pc[q] # "write_stats" \/ pc'[q] # "idle") =>
             user_stats' = user_stats]_vars

C19_Witness ==
    /\ Updated
    /\ resp.end_time < Prior.lastSessionDate
    /\ Written.lastSessionDate = resp.end_time

\* C20: however toggle_schedule requests on a schedule interleave, each
\* returns the negation of what the toggle before it returned, and once none
\* is in flight enabled is the initial value negated once per toggle.
C20_NoToggleLost ==
    /\ (resp.op = "toggle" /\ resp.status = 200) => resp.enabled # resp.before
    /\ (\A p \in Procs : pc[p] # "update_schedule") =>
          \A i \in 1..Len(schedules) :
              schedules[i].enabled = (toggles[schedules[i]._id].count % 2 = 0)

====
